---- MODULE Spec2Model ----
(***************************************************************************)
(* A model of conv.py: the streaming process runner (popen), the line      *)
(* handlers that consume its output (metadata probe, mencoder and ffmpeg   *)
(* progress trackers) and the conversion pipeline of BaseConverter.        *)
(*                                                                         *)
(* A line read from a subprocess is a sequence of tokens; the zero-length  *)
(* read is the empty sequence <<>>.  A Python value whose type matters is  *)
(* a record [type |-> "int" | "str", val |-> ...].                         *)
(***************************************************************************)
EXTENDS Integers, Sequences, FiniteSets, TLC

VARIABLES
    ppc,         \* position of popen: "idle", "loop", "returned", "raised"
    eof_count,   \* popen's local eof_count
    miss_count,  \* popen's parameter miss_count
    handler,     \* which callable popen was given ("none": handler=None)
    hstate,      \* the mutable kwargs the handler works on
    exc,         \* the exception travelling up the stack, "none" if none
    reads,       \* every line stream.readline() returned in this popen call
    calls,       \* every line the handler was invoked with in this popen call
    events,      \* every process_handler(old, new) invocation
    cpc,         \* position of BaseConverter.convert
    env,         \* the machine: installed utilities, interpreter, converter class
    procs,       \* the subprocesses this conversion launched, in launch order
    result,      \* the ConvertResult of this conversion
    snap,        \* make_snapshot: the positions still to attempt, those that failed
                 \* and those that were made in this conversion
    fs,          \* the files: the output file and the injector's side file
    snapshots,   \* ConvertResult.snapshots, the one dict of the class
    call         \* a function called on its own: its name, its arguments and,
                 \* once it has returned, its value

popenvars == <<ppc, eof_count, miss_count, handler, hstate, exc, reads, calls, events>>
pipevars == <<cpc, env, procs, result, snap, fs, snapshots, call>>
vars == <<ppc, eof_count, miss_count, handler, hstate, exc, reads, calls, events,
          cpc, env, procs, result, snap, fs, snapshots, call>>

(***************************************************************************)
(* Bounds of the model.                                                    *)
(***************************************************************************)
MaxLines == 2        \* non-empty lines one subprocess delivers
MaxMiss == 2         \* largest explicit miss_count argument tried
MaxFail == 1         \* snapshot attempts of one conversion that leave an empty file
MaxDuration == 12    \* longest video, in seconds, make_snapshot is called on
MaxNum == 3          \* largest number of snapshots asked for
MaxStrLen == 3       \* longest string escape_shell_arg is called on
MaxPathLen == 2      \* longest file path a command is built for

DefaultMissCount == 5

Blank == <<>>

(***************************************************************************)
(* popen (conv.py 72-109)                                                  *)
(***************************************************************************)

\* len(line) < 1
IsBlankMutant(line) == FALSE
IsBlank(line) == Len(line) < 1

\* eof_count > miss_count
EofExceededMutant(eofs, misses) == FALSE
EofExceeded(eofs, misses) == eofs > misses

\* A handler outcome: the kwargs state it leaves, the progress events it
\* emitted and the exception it raised ("none" when it returned).
Outcome(st, emitted, raised) == [state |-> st, emit |-> emitted, exc |-> raised]

\* A caller-supplied handler of unknown code: it raises on the lines of
\* st.raisesOn and returns on every other line.
GenericHandler(line, st) ==
    Outcome(st, <<>>, IF line \in st.raisesOn THEN "HandlerError" ELSE "none")

(***************************************************************************)
(* Python values and conversions used by the handlers                      *)
(***************************************************************************)
PyInt(n) == [type |-> "int", val |-> n]
PyStr(s) == [type |-> "str", val |-> s]

\* a != b for an int or str on either side: values of different types are
\* never equal, values of one type are compared by value.
PyNe(a, b) == a.type # b.type \/ a.val # b.val

Digits == {"0", "1", "2", "3", "4", "5", "6", "7", "8", "9"}

DigitVal(d) ==
    CASE d = "0" -> 0 [] d = "1" -> 1 [] d = "2" -> 2 [] d = "3" -> 3
      [] d = "4" -> 4 [] d = "5" -> 5 [] d = "6" -> 6 [] d = "7" -> 7
      [] d = "8" -> 8 [] d = "9" -> 9

AllDigits(s) == Len(s) >= 1 /\ \A i \in DOMAIN s : s[i] \in Digits

RECURSIVE DigitsToInt(_)
DigitsToInt(s) ==
    IF Len(s) = 0 THEN 0
    ELSE 10 * DigitsToInt(SubSeq(s, 1, Len(s) - 1)) + DigitVal(s[Len(s)])

\* int(v): an int is itself, a str of decimal digits is its number (leading
\* zeros dropped); any other str raises ValueError, written ValueErr here.
ValueErr == -1
IntOf(v) ==
    IF v.type = "int" THEN v.val
    ELSE IF AllDigits(v.val) THEN DigitsToInt(v.val) ELSE ValueErr

(***************************************************************************)
(* MencoderConverter.parse_converter_output.line_handler (conv.py 501-513) *)
(***************************************************************************)
ErrSig == "Error parsing option on the command line"

\* 'Error parsing option on the command line' in line
HasErrSig(line) == \E i \in DOMAIN line : line[i] = ErrSig

\* The first index >= i of line that holds no space (Len(line)+1 if none).
RECURSIVE SkipSpaces(_, _)
SkipSpaces(line, i) ==
    IF i <= Len(line) /\ line[i] = " " THEN SkipSpaces(line, i + 1) ELSE i

\* The last index of the run of digits of line that starts at j (j-1 if
\* line[j] is no digit).
RECURSIVE DigitsEnd(_, _)
DigitsEnd(line, j) ==
    IF j <= Len(line) /\ line[j] \in Digits THEN DigitsEnd(line, j + 1) ELSE j - 1

\* \(\s*?(\d+)%\) matched at index i of line: the group, or <<>>.
PercentGroupAt(line, i) ==
    IF i > Len(line) \/ line[i] # "(" THEN <<>>
    ELSE LET j == SkipSpaces(line, i + 1)
             k == DigitsEnd(line, j)
         IN IF k >= j /\ k + 2 <= Len(line)
               /\ line[k + 1] = "%" /\ line[k + 2] = ")"
            THEN SubSeq(line, j, k)
            ELSE <<>>

\* re.compile('^Pos:.*?\(\s*?(\d+)%\)').match(line): group(1) of the
\* leftmost match, or <<>> when the line does not match.
PosMatch(line) ==
    IF Len(line) < 1 \/ line[1] # "Pos:" THEN <<>>
    ELSE LET hits == {i \in 2..Len(line) : PercentGroupAt(line, i) # <<>>}
         IN IF hits = {} THEN <<>>
            ELSE PercentGroupAt(line, CHOOSE i \in hits : \A j \in hits : i <= j)

\* Lines 508-513, after the signature test.
MencoderProgress(line, st) ==
    LET curr == PosMatch(line) IN
    IF curr # <<>> /\ PyNe(st.percent, PyStr(curr))
    THEN Outcome([st EXCEPT !.percent = PyStr(curr)],
                 <<<<IntOf(st.percent), IntOf(PyStr(curr))>>>>, "none")
    ELSE Outcome(st, <<>>, "none")

MencoderHandlerMutant(line, st) ==
    LET out == MencoderProgress(line, st) IN
    IF HasErrSig(line) THEN Outcome(out.state, out.emit, "WrongCommandLine")
    ELSE out
MencoderHandler(line, st) ==
    IF HasErrSig(line) THEN Outcome(st, <<>>, "WrongCommandLine")
    ELSE MencoderProgress(line, st)

(***************************************************************************)
(* FFMpegConverter.parse_converter_output.line_handler (conv.py 534-560)   *)
(***************************************************************************)
TokensAre(line, i, toks) ==
    /\ i + Len(toks) - 1 <= Len(line)
    /\ \A k \in DOMAIN toks : line[i + k - 1] = toks[k]

\* re.compile('^Duration: (d{2}):(d{2}):(d{2}).(d{2})$').match(line): the
\* groups are runs of the letter d, the separator before the last is any
\* character.
ReDurationMatch(line) ==
    /\ Len(line) = 12
    /\ TokensAre(line, 1, <<"Duration: ", "d", "d", ":", "d", "d", ":", "d", "d">>)
    /\ TokensAre(line, 11, <<"d", "d">>)

\* re.compile('time=(d{2}):(d{2}):(d{2})\.(\d{2})').match(line): match()
\* anchors at the start of the line, the first three groups are runs of the
\* letter d, the last is two digits.
ReProgressMatch(line) ==
    /\ Len(line) >= 12
    /\ TokensAre(line, 1, <<"time=", "d", "d", ":", "d", "d", ":", "d", "d", ".">>)
    /\ line[11] \in Digits /\ line[12] \in Digits

\* time2sec(match): 3600*int(g(1)) + 60*int(g(2)) + int(g(3)), ValueErr when
\* an int() raises ValueError.
Time2Sec(line) ==
    LET h == IntOf(PyStr(SubSeq(line, 2, 3)))
        m == IntOf(PyStr(SubSeq(line, 5, 6)))
        s == IntOf(PyStr(SubSeq(line, 8, 9)))
    IN IF h = ValueErr \/ m = ValueErr \/ s = ValueErr THEN ValueErr
       ELSE 3600 * h + 60 * m + s

\* The local name `duration` of line_handler has no value on entry.
Unbound == -2

FFMpegHandler(line, st) ==
    LET duration == IF ReDurationMatch(line) THEN Time2Sec(line) ELSE Unbound IN
    IF duration = ValueErr THEN Outcome(st, <<>>, "ValueError")
    ELSE IF ~ReProgressMatch(line) THEN Outcome(st, <<>>, "none")
    ELSE IF duration = Unbound THEN Outcome(st, <<>>, "UnboundLocalError")
    ELSE LET t == Time2Sec(line)
             curr == IF duration # 0 THEN (t * 100) \div duration ELSE 0
         IN IF duration # 0 /\ t = ValueErr THEN Outcome(st, <<>>, "ValueError")
            ELSE IF PyNe(st.percent, PyInt(curr))
            THEN Outcome([st EXCEPT !.percent = PyInt(curr)],
                         <<<<IntOf(st.percent), curr>>>>, "none")
            ELSE Outcome(st, <<>>, "none")

(***************************************************************************)
(* get_video_metadata.line_handler and its table (conv.py 128-166)         *)
(***************************************************************************)
Row(token, field, filters) == [token |-> token, field |-> field, filters |-> filters]

InfoMap == <<
    Row(<<"ID_", "AUDIO_CODEC">>,      "audio_codec",      <<"unicode">>),
    Row(<<"ID_", "AUDIO_FORMAT">>,     "audio_format",     <<"unicode">>),
    Row(<<"ID_", "AUDIO_BITRATE">>,    "audio_bitrate",    <<"int">>),
    Row(<<"ID_", "AUDIO_RATE">>,       "audio_rate",       <<"int">>),
    Row(<<"ID_", "AUDIO_NCH">>,        "audio_nch",        <<"int">>),
    Row(<<"ID_", "VIDEO_FORMAT">>,     "video_format",     <<"unicode">>),
    Row(<<"ID_", "VIDEO_BITRATE">>,    "video_bitrate",    <<"int">>),
    Row(<<"ID_", "VIDEO_ASPECT">>,     "video_aspect",     <<"float">>),
    Row(<<"ID_", "VIDEO_WIDTH">>,      "width",            <<"int">>),
    Row(<<"ID_", "VIDEO_HEIGHT">>,     "height",           <<"int">>),
    Row(<<"ID_", "VIDEO_FPS">>,        "frame_rate",       <<"float">>),
    Row(<<"ID_", "LENGTH">>,           "duration",         <<"float", "ceil", "int">>),
    Row(<<"ID_", "CLIP_INFO_VALUE0">>, "clip_info_value0", <<"unicode">>),
    Row(<<"ID_", "VIDEO_ID">>,         "video_id",         <<"int">>),
    Row(<<"ID_", "AUDIO_ID">>,         "audio_id",         <<"int">>),
    Row(<<"ID_", "CLIP_INFO_N">>,      "clip_info_n",      <<"unicode">>),
    Row(<<"ID_", "FILENAME">>,         "filename",         <<"unicode">>),
    Row(<<"ID_", "DEMUXER">>,          "demuxer",          <<"unicode">>),
    Row(<<"ID_", "SEEKABLE">>,         "seekable",         <<"bool">>),
    Row(<<"ID_", "CHAPTERS">>,         "chapters",         <<"int">>),
    Row(<<"ID_", "VIDEO_CODEC">>,      "video_codec",      <<"unicode">>),
    Row(<<"ID_", "EXIT">>,             "exit",             <<"unicode">> ) >>

\* line.startswith(prefix)
StartsWith(line, prefix) == TokensAre(line, 1, prefix)

\* A dict: a function from its keys; {} is the function of no key.
EmptyDict == <<>>
Put(d, k, v) == [x \in DOMAIN d \cup {k} |-> IF x = k THEN v ELSE d[x]]

PyErr == [type |-> "error", val |-> "ValueError"]
PyFloat(whole, frac) == [type |-> "float", val |-> [whole |-> whole, frac |-> frac]]

\* float(s) of a str s: digits with at most one point and at least one digit.
FloatOf(s) ==
    LET dots == {i \in DOMAIN s : s[i] = "."} IN
    IF Cardinality(dots) > 1 \/ \E i \in DOMAIN s : s[i] \notin Digits \cup {"."}
    THEN PyErr
    ELSE LET d == IF dots = {} THEN Len(s) + 1 ELSE CHOOSE i \in dots : TRUE
             w == SubSeq(s, 1, d - 1)
             f == SubSeq(s, d + 1, Len(s))
         IN IF Len(w) + Len(f) = 0 THEN PyErr
            ELSE PyFloat(DigitsToInt(w), f)

\* f(val) for one filter of the table.
ApplyFilter(f, v) ==
    CASE v.type = "error" -> v
      [] f = "unicode" -> [type |-> "unicode", val |-> v.val]
      [] f = "int" /\ v.type = "float" -> PyInt(v.val.whole)
      [] f = "int" /\ v.type # "float" ->
            IF AllDigits(v.val) THEN PyInt(DigitsToInt(v.val)) ELSE PyErr
      [] f = "float" -> FloatOf(v.val)
      [] f = "ceil" ->
            PyFloat(v.val.whole
                    + (IF \E i \in DOMAIN v.val.frac : v.val.frac[i] # "0" THEN 1 ELSE 0),
                    <<>>)
      [] f = "bool" -> [type |-> "bool", val |-> Len(v.val) > 0]

RECURSIVE ApplyFilters(_, _)
ApplyFilters(fs_, v) ==
    IF Len(fs_) = 0 THEN v ELSE ApplyFilters(Tail(fs_), ApplyFilter(Head(fs_), v))

\* line.strip().split('=', 2): the pieces around the first two '='.
EqualSigns(line) == {i \in DOMAIN line : line[i] = "="}

\* The for loop of lines 161-166 from row i on, metadata being md.
RECURSIVE ProbeRows(_, _, _)
ProbeRows(line, md, i) ==
    IF i > Len(InfoMap) THEN Outcome([metadata |-> md], <<>>, "none")
    ELSE IF ~StartsWith(line, InfoMap[i].token) THEN ProbeRows(line, md, i + 1)
    ELSE IF Cardinality(EqualSigns(line)) # 1
    THEN Outcome([metadata |-> md], <<>>, "ValueError")
    ELSE LET eq == CHOOSE k \in EqualSigns(line) : TRUE
             val == ApplyFilters(InfoMap[i].filters,
                                 PyStr(SubSeq(line, eq + 1, Len(line))))
         IN IF val.type = "error"
            THEN Outcome([metadata |-> md], <<>>, "ValueError")
            ELSE ProbeRows(line, Put(md, InfoMap[i].field, val), i + 1)

ProbeHandler(line, st) ==
    IF ~StartsWith(line, <<"ID_">>) THEN Outcome(st, <<>>, "none")
    ELSE ProbeRows(line, st.metadata, 1)

HandlerCall(h, line, st) ==
    CASE h = "generic" -> GenericHandler(line, st)
      [] h = "mencoder" -> MencoderHandler(line, st)
      [] h = "ffmpeg" -> FFMpegHandler(line, st)
      [] h = "probe" -> ProbeHandler(line, st)

\* What popen does with an exception its handler raised: nothing, the
\* exception leaves the while loop and popen.
AfterRaiseMutant == "loop"
AfterRaise == "raised"

\* Lines 89-94: the subprocess is started, eof_count = 0.
PopenStart(h, st, misses) ==
    /\ ppc' = "loop"
    /\ eof_count' = 0
    /\ miss_count' = misses
    /\ handler' = h
    /\ hstate' = st
    /\ reads' = <<>>
    /\ calls' = <<>>

\* Lines 96-109: one iteration of the while loop on the line readline() gave.
PopenIter(line) ==
    /\ ppc = "loop"
    /\ reads' = Append(reads, line)
    /\ UNCHANGED <<miss_count, handler>>
    /\ IF IsBlank(line)
       THEN /\ IF EofExceeded(eof_count, miss_count)
               THEN ppc' = "returned" /\ UNCHANGED eof_count
               ELSE ppc' = "loop" /\ eof_count' = eof_count + 1
            /\ UNCHANGED <<hstate, exc, calls, events>>
       ELSE /\ eof_count' = 0
            /\ IF handler # "none"
               THEN LET out == HandlerCall(handler, line, hstate) IN
                    /\ calls' = Append(calls, line)
                    /\ hstate' = out.state
                    /\ events' = events \o out.emit
                    /\ exc' = out.exc
                    /\ ppc' = IF out.exc = "none" THEN "loop" ELSE AfterRaise
               ELSE /\ ppc' = "loop"
                    /\ UNCHANGED <<hstate, exc, calls, events>>

NonBlankReads == SelectSeq(reads, LAMBDA l : Len(l) >= 1)

(***************************************************************************)
(* ConvertResult (conv.py 255-275) as convert leaves it at line 307. The    *)
(* class has no __init__: its attributes are class attributes, and         *)
(* result.snapshots[position] = ... (line 363) writes into the dict of the *)
(* class, which every result reads as its snapshots.                       *)
(***************************************************************************)
NewResult ==
    [movie_original |-> "", movie_converted |-> "", converted |-> FALSE,
     metadata |-> EmptyDict, movie_info |-> EmptyDict]

\* make_snapshot before its loop has planned anything.
NoSnapshots == [seconds |-> <<>>, failed |-> {}, made |-> {}]

\* No function is called on its own.
NoCall == [fn |-> "none", args |-> <<>>, done |-> FALSE, value |-> <<>>]

\* popen called on its own, outside any conversion.
NoConversion ==
    /\ cpc = "idle"
    /\ env = [installed |-> {}, pyver |-> "2.6", family |-> "none"]
    /\ procs = <<>>
    /\ result = NewResult
    /\ snap = NoSnapshots
    /\ fs = [out |-> "absent", side |-> "absent"]
    /\ snapshots = EmptyDict
    /\ call = NoCall

(***************************************************************************)
(* SpecPopen: one call of popen on an arbitrary stream, with an arbitrary  *)
(* handler (or none) and an arbitrary miss_count.                          *)
(***************************************************************************)
PopenLines == {<<"a">>, <<"b">>}

InitPopen ==
    /\ ppc = "loop"
    /\ eof_count = 0
    /\ miss_count \in (0..MaxMiss) \cup {DefaultMissCount}
    /\ handler \in {"none", "generic"}
    /\ hstate \in [raisesOn : SUBSET {<<"b">>}]
    /\ exc = "none"
    /\ reads = <<>>
    /\ calls = <<>>
    /\ events = <<>>
    /\ NoConversion

ReadBlank == PopenIter(Blank) /\ UNCHANGED pipevars

ReadLine ==
    /\ Len(NonBlankReads) < MaxLines
    /\ \E line \in PopenLines : PopenIter(line)
    /\ UNCHANGED pipevars

NextPopen == ReadBlank \/ ReadLine

SpecPopen == InitPopen /\ [][NextPopen]_vars

(***************************************************************************)
(* SpecPopenFair: the same call of popen, where stream.readline() always   *)
(* comes back: a pipe gives a line when the subprocess wrote one and a     *)
(* zero-length line at once when it is closed, so the while loop keeps     *)
(* iterating until it is left. MaxReads is more than popen can read of a   *)
(* stream with MaxLines non-empty lines: before each of them and after the *)
(* last, at most miss_count + 2 zero-length reads.                         *)
(***************************************************************************)
MaxReads == (MaxLines + 1) * (DefaultMissCount + MaxMiss + 3)

FairReadBlank == Len(reads) < MaxReads /\ ReadBlank

FairReadLine == Len(reads) < MaxReads /\ ReadLine

NextPopenFair == FairReadBlank \/ FairReadLine

SpecPopenFair == InitPopen /\ [][NextPopenFair]_vars /\ WF_vars(NextPopenFair)

(***************************************************************************)
(* A subprocess pipe delivers its lines and then end-of-file: once         *)
(* readline() has returned a zero-length line it returns nothing else.     *)
(***************************************************************************)
StreamEOF == PopenIter(Blank)

StreamLine(lines) ==
    /\ eof_count = 0
    /\ Len(reads) < MaxLines
    /\ \E line \in lines : PopenIter(line)

(***************************************************************************)
(* SpecMencoder: the popen call of MencoderConverter.parse_converter_output *)
(* (conv.py 499, 515-518) on an arbitrary mencoder output.                 *)
(***************************************************************************)
PosLine(pct) == <<"Pos:", " ", "x", "s", " ", "(">> \o pct \o <<"%", ")", " ", "x">>

MencoderLines == {
    PosLine(<<" ", "0">>),
    PosLine(<<"1", "0">>),
    PosLine(<<"2", "5">>),
    PosLine(<<"0", "5">>),
    PosLine(<<" ", "5">>),
    PosLine(<<"1", "0">>) \o <<ErrSig>>,
    <<"x", ErrSig, "x">>,
    <<" ", "Pos:", "(", "1", "0", "%", ")">>,
    <<"Pos:", "(", "x", ")", "(", "1", "0", ")">>,
    <<"x">> }

InitMencoder ==
    /\ ppc = "loop"
    /\ eof_count = 0
    /\ miss_count = DefaultMissCount
    /\ handler = "mencoder"
    /\ hstate = [percent |-> PyInt(0)]
    /\ exc = "none"
    /\ reads = <<>>
    /\ calls = <<>>
    /\ events = <<>>
    /\ NoConversion

MencoderEOF == StreamEOF /\ UNCHANGED pipevars

MencoderLine == StreamLine(MencoderLines) /\ UNCHANGED pipevars

NextMencoder == MencoderEOF \/ MencoderLine

SpecMencoder == InitMencoder /\ [][NextMencoder]_vars

(***************************************************************************)
(* SpecFFMpeg: the popen call of FFMpegConverter.parse_converter_output    *)
(* (conv.py 532, 562-566) on an arbitrary ffmpeg output.                   *)
(***************************************************************************)
Clock(a, b, c) == <<a, a, ":", b, b, ":", c, c, ".", "0", "0">>

FFMpegLines == {
    <<"Duration: ">> \o Clock("0", "1", "4"),
    <<"Duration: ">> \o Clock("d", "d", "d"),
    <<"Duration: ", "d", "d", ":", "d", "d", ":", "d", "d", ".", "d", "d">>,
    <<"time=">> \o Clock("0", "0", "5"),
    <<"time=">> \o Clock("d", "d", "d"),
    <<"x", "time=">> \o Clock("d", "d", "d"),
    <<"Duration: ", "0", "0", ":", "0", "1", ":", "4", "0", ".", "0", "0">>,
    <<"time=", "0", "0", ":", "0", "0", ":", "5", "0", ".", "0", "0">>,
    <<"x">> }

InitFFMpeg ==
    /\ ppc = "loop"
    /\ eof_count = 0
    /\ miss_count = DefaultMissCount
    /\ handler = "ffmpeg"
    /\ hstate = [percent |-> PyInt(0), duration |-> PyInt(0)]
    /\ exc = "none"
    /\ reads = <<>>
    /\ calls = <<>>
    /\ events = <<>>
    /\ NoConversion

FFMpegEOF == StreamEOF /\ UNCHANGED pipevars

FFMpegLine == StreamLine(FFMpegLines) /\ UNCHANGED pipevars

NextFFMpeg == FFMpegEOF \/ FFMpegLine

SpecFFMpeg == InitFFMpeg /\ [][NextFFMpeg]_vars

(***************************************************************************)
(* check_utility and require_utility (conv.py 35-69)                       *)
(***************************************************************************)
Utilities == {"mplayer", "mencoder", "ffmpeg", "yamdi"}

\* check_utility(u) raises UtilityNotFound: the binary cannot be launched
\* (OSError from subprocess.check_call).
MissingMutant(u) == FALSE
Missing(u) == u \notin env.installed

\* raise UtilityNotFound, 'Utility %s not found' % command
UtilityNotFound(u) ==
    CASE u = "mplayer" -> "UtilityNotFound: mplayer"
      [] u = "mencoder" -> "UtilityNotFound: mencoder"
      [] u = "ffmpeg" -> "UtilityNotFound: ffmpeg"
      [] u = "yamdi" -> "UtilityNotFound: yamdi"

(***************************************************************************)
(* BaseConverter.convert and the stages it calls (conv.py 301-378)         *)
(***************************************************************************)
Proc(stage, util, state) == [stage |-> stage, util |-> util, state |-> state]

\* popen has come back to its caller: the while loop was left by break.
PopenDoneMutant == ppc \in {"loop", "returned"}
PopenDone == ppc = "returned"

\* The subprocess log once the current popen call is over: its subprocess
\* is drained if the stream was at end-of-file when popen left it.
Drained ==
    [procs EXCEPT ![Len(procs)].state =
        IF eof_count > 0 THEN "drained" ELSE "running"]

\* An exception raised by convert's own code (not by a line handler).
Raise(e) ==
    /\ cpc' = "raised"
    /\ exc' = e
    /\ UNCHANGED <<ppc, eof_count, miss_count, handler, hstate, reads, calls, events>>

\* A stage function decorated with require_utility(u): the check, then the
\* popen call of the function with handler h.
Stage(prev, u, stage, h, st, pc) ==
    IF Missing(u)
    THEN Raise(UtilityNotFound(u)) /\ procs' = prev
    ELSE /\ procs' = prev \o <<Proc("help", u, "exited"), Proc(stage, u, "running")>>
         /\ PopenStart(h, st, DefaultMissCount)
         /\ cpc' = pc
         /\ UNCHANGED <<exc, events>>

\* A popen call that no utility check precedes (the encoder's).
Unchecked(prev, u, stage, h, st, pc) ==
    /\ procs' = prev \o <<Proc(stage, u, "running")>>
    /\ PopenStart(h, st, DefaultMissCount)
    /\ cpc' = pc
    /\ UNCHANGED <<exc, events>>

\* len(metadata.keys()) < 2
ProbeFailedMutant(md) == FALSE
ProbeFailed(md) == Cardinality(DOMAIN md) < 2

\* xrange(start, stop, step) as a list, step > 0.
XRange(start, stop, step) ==
    LET n == IF stop > start THEN ((stop - start - 1) \div step) + 1 ELSE 0
    IN [i \in 1..n |-> start + (i - 1) * step]

\* Lines 342-352 of make_snapshot: the positions, or the exception raised.
\* math.floor returns a float, which xrange takes as int(step) under
\* Python 2.6 and refuses with TypeError from Python 2.7 on.
SnapshotNum == 10
SnapshotPlan(info, num, pyver) ==
    IF "duration" \notin DOMAIN info THEN [exc |-> "KeyError", seconds |-> <<>>]
    ELSE LET duration == info["duration"].val
             step == duration \div num
         IN IF pyver = "2.7" THEN [exc |-> "TypeError", seconds |-> <<>>]
            ELSE IF step = 0 THEN [exc |-> "ValueError", seconds |-> <<>>]
            ELSE [exc |-> "none",
                  seconds |-> XRange(1, duration - 1, step)
                              \o <<duration, duration \div 2>>]

\* snapshot_filename (lines 328-335)
SnapshotFilename(res, second) == <<res.movie_converted, "_", second, ".jpeg">>

\* What a file can be after the utility that writes it has run.
FileStates == {"data", "empty", "absent"}

\* Lines 305-308 up to the popen call of get_video_metadata.
ConvertStart ==
    /\ cpc = "start"
    /\ result' = [NewResult EXCEPT !.movie_original = "in"]
    /\ Stage(procs, "mplayer", "probe", "probe", [metadata |-> EmptyDict], "probe")
    /\ UNCHANGED <<env, snap, fs, snapshots, call>>

\* Lines 183-185, 308-309, 320-321 and 498-518: the probe is over; on
\* success encode starts with parse_converter_output, which only the
\* mencoder classes can run (no other class has get_encode_command).
ProbeReturn ==
    /\ cpc = "probe"
    /\ PopenDone
    /\ IF ProbeFailed(hstate.metadata)
       THEN Raise("WrongVideoFormat") /\ procs' = Drained /\ UNCHANGED result
       ELSE /\ result' = [result EXCEPT !.movie_info = hstate.metadata]
            /\ IF env.family = "mencoder"
               THEN Unchecked(Drained, "mencoder", "encode", "mencoder",
                              [percent |-> PyInt(0)], "track")
               ELSE Raise("AttributeError") /\ procs' = Drained
    /\ UNCHANGED <<env, snap, fs, snapshots, call>>

\* Lines 520 and 323-324: parse_converter_output is over, encode runs the
\* command again without a handler.
TrackReturn ==
    /\ cpc = "track"
    /\ PopenDone
    /\ Unchecked(Drained, "mencoder", "encode", "none", EmptyDict, "encode")
    /\ UNCHANGED <<env, result, snap, fs, snapshots, call>>

\* Lines 326, 309-313 and 342-362: encode returns True, convert records it
\* and make_snapshot plans the positions and starts the first attempt.
EncodeReturn ==
    /\ cpc = "encode"
    /\ PopenDone
    /\ \E written \in FileStates : fs' = [fs EXCEPT !.out = written]
    /\ result' = [result EXCEPT !.converted = TRUE, !.movie_converted = "out"]
    /\ LET plan == SnapshotPlan(result.movie_info, SnapshotNum, env.pyver) IN
       IF plan.exc # "none"
       THEN Raise(plan.exc) /\ procs' = Drained /\ UNCHANGED snap
       ELSE /\ snap' = [NoSnapshots EXCEPT !.seconds = plan.seconds]
            /\ Stage(Drained, "ffmpeg", "snapshot", "none", EmptyDict, "snapshot")
    /\ UNCHANGED <<env, snapshots, call>>

\* Lines 216-219 and 362-363 for the attempt that just ran, then the next
\* attempt or, after the last, lines 314 and 376 (inject_metadata).
SnapshotReturn ==
    /\ cpc = "snapshot"
    /\ PopenDone
    /\ \E written \in FileStates :
         LET position == Head(snap.seconds)
             rest == Tail(snap.seconds)
         IN IF written = "absent"
            THEN Raise("OSError") /\ procs' = Drained /\ UNCHANGED <<snapshots, snap>>
            ELSE /\ written = "empty" => Cardinality(snap.failed) < MaxFail
                 /\ snapshots' =
                      IF written = "data"
                      THEN Put(snapshots, position, SnapshotFilename(result, position))
                      ELSE snapshots
                 /\ snap' = [seconds |-> rest,
                             failed |-> IF written = "empty"
                                        THEN snap.failed \cup {position}
                                        ELSE snap.failed,
                             made |-> IF written = "data"
                                      THEN snap.made \cup {position}
                                      ELSE snap.made]
                 /\ IF rest # <<>>
                    THEN Stage(Drained, "ffmpeg", "snapshot", "none", EmptyDict, "snapshot")
                    ELSE Stage(Drained, "yamdi", "inject", "none", EmptyDict, "inject")
    /\ UNCHANGED <<env, result, fs, call>>

\* Lines 377-378 and 315: the injector is over, its side file replaces the
\* output file and convert returns the result.
InjectReturn ==
    /\ cpc = "inject"
    /\ PopenDone
    /\ procs' = Drained
    /\ \E written \in FileStates :
         IF fs.out = "absent"
         THEN Raise("OSError") /\ fs' = [fs EXCEPT !.side = written]
         ELSE IF written = "absent"
         THEN Raise("OSError") /\ fs' = [out |-> "absent", side |-> "absent"]
         ELSE /\ fs' = [out |-> written, side |-> "absent"]
              /\ cpc' = "done"
              /\ UNCHANGED popenvars
    /\ UNCHANGED <<env, result, snap, snapshots, call>>

(***************************************************************************)
(* Spec: one call of convert; the subprocess of the running stage delivers *)
(* its lines to popen.                                                     *)
(***************************************************************************)
IdLine(name, value) == <<"ID_", name, "=">> \o value

ProbeLines == {
    IdLine("VIDEO_WIDTH", <<"6", "4", "0">>),
    IdLine("VIDEO_HEIGHT", <<"4", "8", "0">>),
    IdLine("LENGTH", <<"9", ".", "6", "0">>),
    IdLine("LENGTH", <<"2", ".", "0", "0">>),
    IdLine("VIDEO_WIDTH", <<"x">>),
    IdLine("FILENAME", <<"a", "=", "b">>),
    <<"x">> }

EncoderLines == {PosLine(<<"1", "0">>), <<"x", ErrSig, "x">>, <<"x">>}

\* What the shell or a utility without a handler prints.
OtherLines == {<<"x">>}

StageLines ==
    CASE cpc = "probe" -> ProbeLines
      [] cpc = "track" -> IF Missing("mencoder") THEN OtherLines ELSE EncoderLines
      [] OTHER -> OtherLines

Stages == {"probe", "track", "encode", "snapshot", "inject"}

Init ==
    /\ ppc = "idle"
    /\ eof_count = 0
    /\ miss_count = DefaultMissCount
    /\ handler = "none"
    /\ hstate = EmptyDict
    /\ exc = "none"
    /\ reads = <<>>
    /\ calls = <<>>
    /\ events = <<>>
    /\ cpc = "start"
    /\ env \in [installed : SUBSET Utilities,
                pyver : {"2.6", "2.7"},
                family : {"mencoder", "ffmpeg"}]
    /\ procs = <<>>
    /\ result = NewResult
    /\ snap = NoSnapshots
    /\ fs = [out |-> "absent", side |-> "absent"]
    /\ snapshots = EmptyDict
    /\ call = NoCall

ConvertEOF ==
    /\ cpc \in Stages
    /\ StreamEOF
    /\ UNCHANGED pipevars

\* A line handler's exception leaves popen and convert, which catch nothing.
ConvertLine ==
    /\ cpc \in Stages
    /\ StreamLine(StageLines)
    /\ cpc' = IF exc' # "none" THEN "raised" ELSE cpc
    /\ UNCHANGED <<env, procs, result, snap, fs, snapshots, call>>

Next ==
    \/ ConvertStart
    \/ ConvertEOF
    \/ ConvertLine
    \/ ProbeReturn
    \/ TrackReturn
    \/ EncodeReturn
    \/ SnapshotReturn
    \/ InjectReturn

Spec == Init /\ [][Next]_vars

(***************************************************************************)
(* SpecAgain: convert is called again and again in one interpreter, on a   *)
(* machine where every conversion can succeed. Each call starts from a new *)
(* ConvertResult (line 305); what belongs to the class stays.              *)
(***************************************************************************)
InitAgain ==
    /\ Init
    /\ env = [installed |-> Utilities, pyver |-> "2.6", family |-> "mencoder"]

ConvertAgain ==
    /\ cpc = "done"
    /\ cpc' = "start"
    /\ ppc' = "idle"
    /\ eof_count' = 0
    /\ miss_count' = DefaultMissCount
    /\ handler' = "none"
    /\ hstate' = EmptyDict
    /\ reads' = <<>>
    /\ calls' = <<>>
    /\ events' = <<>>
    /\ procs' = <<>>
    /\ result' = NewResult
    /\ snap' = NoSnapshots
    /\ fs' = [out |-> "absent", side |-> "absent"]
    /\ UNCHANGED <<exc, env, snapshots, call>>

NextAgain == Next \/ ConvertAgain

SpecAgain == InitAgain /\ [][NextAgain]_vars

(***************************************************************************)
(* Functions called on their own: no popen call and no conversion is in    *)
(* progress, the function is given its arguments and returns its value.    *)
(***************************************************************************)
NothingRuns ==
    /\ ppc = "idle"
    /\ eof_count = 0
    /\ miss_count = DefaultMissCount
    /\ handler = "none"
    /\ hstate = EmptyDict
    /\ exc = "none"
    /\ reads = <<>>
    /\ calls = <<>>
    /\ events = <<>>
    /\ cpc = "idle"
    /\ procs = <<>>
    /\ result = NewResult
    /\ snap = NoSnapshots
    /\ fs = [out |-> "absent", side |-> "absent"]
    /\ snapshots = EmptyDict

Called(fn, args) == [fn |-> fn, args |-> args, done |-> FALSE, value |-> <<>>]

Return(fn, value) ==
    /\ call.fn = fn
    /\ ~call.done
    /\ call' = [call EXCEPT !.done = TRUE, !.value = value]
    /\ UNCHANGED <<popenvars, cpc, env, procs, result, snap, fs, snapshots>>

(***************************************************************************)
(* SpecPlan: lines 341-352 of BaseConverter.make_snapshot on a result of   *)
(* an arbitrary duration, for an arbitrary num, under either interpreter.  *)
(***************************************************************************)
Durations == (1..MaxDuration) \cup {100}
Nums == (1..MaxNum) \cup {SnapshotNum}

InitPlan ==
    /\ NothingRuns
    /\ env \in [installed : {{}}, pyver : {"2.6", "2.7"}, family : {"none"}]
    /\ call \in {Called("BaseConverter.make_snapshot", [duration |-> d, num |-> n]) :
                    d \in Durations, n \in Nums}

PlanReturn ==
    Return("BaseConverter.make_snapshot",
           SnapshotPlan(Put(EmptyDict, "duration", PyInt(call.args.duration)),
                        call.args.num, env.pyver))

NextPlan == PlanReturn

SpecPlan == InitPlan /\ [][NextPlan]_vars

(***************************************************************************)
(* escape_shell_arg (conv.py 17-32). A string is the sequence of its       *)
(* characters.                                                             *)
(***************************************************************************)
Quote == "'"
Backslash == "\\"
DQuote == "\""

\* arg.replace('\'', '\'' + '\\' + '\'' + '\'')
RECURSIVE ReplaceQuotes(_)
ReplaceQuotesMutant(arg) == arg
ReplaceQuotes(arg) ==
    IF Len(arg) = 0 THEN <<>>
    ELSE (IF Head(arg) = Quote
          THEN <<Quote, Backslash, Quote, Quote>>
          ELSE <<Head(arg)>>) \o ReplaceQuotes(Tail(arg))

escape_shell_arg(arg) == <<Quote>> \o ReplaceQuotes(arg) \o <<Quote>>

(***************************************************************************)
(* SpecEscape: escape_shell_arg called on an arbitrary string over an      *)
(* alphabet with the characters the shell treats specially.                *)
(***************************************************************************)
Alphabet == {Quote, " ", Backslash, DQuote, "a"}

Strings(alphabet, n) == UNION {[1..k -> alphabet] : k \in 0..n}

InitEscape ==
    /\ NothingRuns
    /\ env = [installed |-> {}, pyver |-> "2.6", family |-> "none"]
    /\ call \in {Called("escape_shell_arg", arg) : arg \in Strings(Alphabet, MaxStrLen)}

EscapeReturn == Return("escape_shell_arg", escape_shell_arg(call.args))

NextEscape == EscapeReturn

SpecEscape == InitEscape /\ [][NextEscape]_vars

(***************************************************************************)
(* The converter classes (conv.py 278-293, 569-589) and their constructor  *)
(* (294-299). A str is a sequence of characters in which a run of          *)
(* characters that are not special to the shell may stand as one element.  *)
(***************************************************************************)
PyNone == [type |-> "None", val |-> 0]

\* The truth value of an int, a str or None.
Truthy(v) ==
    CASE v.type = "None" -> FALSE
      [] v.type = "int" -> v.val # 0
      [] v.type = "str" -> Len(v.val) > 0

\* a or b
PyOr(a, b) == IF Truthy(a) THEN a ELSE b

\* d.get(k)
Get(d, k) == IF k \in DOMAIN d THEN d[k] ELSE PyNone

\* The decimal digits of n >= 0.
RECURSIVE IntStr(_)
IntStr(n) ==
    LET last == CHOOSE c \in Digits : DigitVal(c) = n % 10
    IN IF n < 10 THEN <<last>> ELSE IntStr(n \div 10) \o <<last>>

\* '{x}'.format(x=v) and '%s' % v
Format(v) ==
    CASE v.type = "None" -> <<"None">>
      [] v.type = "int" -> IntStr(v.val)
      [] v.type = "str" -> v.val

BaseConverter ==
    [width |-> PyInt(640), height |-> PyInt(480), sample_rate |-> PyInt(22050),
     output_format |-> PyStr(<<"lavf">>),
     video_codec |-> PyStr(<<"lavc">>), video_opts |-> PyNone,
     video_opts_prefix |-> PyStr(<<>>),
     audio_codec |-> PyStr(<<"lavc">>), audio_opts |-> PyNone,
     audio_opts_prefix |-> PyStr(<<>>)]

H263Converter ==
    [BaseConverter EXCEPT
        !.video_codec = PyStr(<<"lavc">>),
        !.video_opts = PyStr(<<"vcodec=flv:vbitrate=700:trell:v4mv:mv0:mbd=2:cbp:aic:cmp=3:subcmp=3">>),
        !.audio_codec = PyStr(<<"mp3lame">>),
        !.audio_opts = PyStr(<<"abr:br=64">>),
        !.audio_opts_prefix = PyStr(<<"lameopts">>)]

\* video_opts is assigned twice in the class body; the second value, '', stays.
H264Converter ==
    [BaseConverter EXCEPT
        !.video_codec = PyStr(<<"x264">>),
        !.video_opts = PyStr(<<>>),
        !.video_opts_prefix = PyStr(<<"x264encopts">>),
        !.audio_codec = PyStr(<<"mp3lame">>),
        !.audio_opts = PyStr(<<"abr:br=64">>),
        !.audio_opts_prefix = PyStr(<<"lameopts">>)]

ConverterClass(name) ==
    CASE name = "H263Converter" -> H263Converter
      [] name = "H264Converter" -> H264Converter

\* BaseConverter.__init__ (lines 294-299) on an instance of class cls.
BaseConverterInit(cls, kwargs) ==
    [cls EXCEPT !.width = PyOr(Get(kwargs, "width"), cls.width),
                !.height = PyOr(Get(kwargs, "height"), cls.height)]

(***************************************************************************)
(* The command lines handed to popen (conv.py 169-175, 207-212, 224-227,   *)
(* 393-492).                                                               *)
(***************************************************************************)
\* sep.join(segs)
RECURSIVE Join(_, _)
Join(sep, segs) ==
    IF Len(segs) = 0 THEN <<>>
    ELSE IF Len(segs) = 1 THEN segs[1]
    ELSE segs[1] \o sep \o Join(sep, Tail(segs))

\* get_video_metadata, lines 169-175
ProbeCommand(filename) ==
    Join(<<" ">>, << <<"mplayer">>,
                    <<"-vo", " ", "null">>,
                    <<"-ao", " ", "null">>,
                    <<"-frames", " ", "0">>,
                    <<"-identify">>,
                    escape_shell_arg(filename) >>)

\* make_snapshot, lines 207-212
SnapshotCommand(video_filename, snapshot_filename, position) ==
    Join(<<" ">>, << <<"ffmpeg">>,
                    <<"-ss", " ">> \o IntStr(position),
                    <<"-i", " ", " ">> \o escape_shell_arg(video_filename),
                    <<"-an", " ", "-vframes", " ", "1", " ", "-y", " ", "-f", " ", "mjpeg">>,
                    escape_shell_arg(snapshot_filename) >>)

\* inject_metadata, lines 224-227
InjectCommand(input_filename, output_filename) ==
    Join(<<" ">>, << <<"yamdi">>,
                    <<"-i", " ">> \o escape_shell_arg(input_filename),
                    <<"-o", " ">> \o escape_shell_arg(output_filename) >>)

\* MencoderConverter.get_encode_command, lines 389-492
get_encode_command(self, input_file, output_file) ==
    LET input_filename == escape_shell_arg(input_file)
        output_filename == <<"-o", " ">> \o output_file
        container == <<"-of", " ">> \o Format(self.output_format)
        vcodec == <<"-ovc", " ">> \o Format(self.video_codec)
        vcodec_opts ==
            IF ~Truthy(self.video_opts) THEN <<>>
            ELSE LET param == IF Truthy(self.video_opts_prefix)
                              THEN Format(self.video_opts_prefix)
                              ELSE Format(self.video_codec) \o <<"opts">>
                 IN <<"-">> \o param \o <<" ">> \o Format(self.video_opts)
        acodec ==
            IF ~Truthy(self.audio_codec) THEN <<>>
            ELSE <<"-oac", " ">> \o Format(self.audio_codec)
        acodec_opts ==
            IF ~Truthy(self.audio_opts) THEN <<>>
            ELSE LET param == IF Truthy(self.audio_opts_prefix)
                              THEN Format(self.audio_opts_prefix)
                              ELSE Format(self.audio_codec) \o <<"opts">>
                 IN <<"-">> \o param \o <<" ">> \o Format(self.audio_opts)
        sample_rate ==
            IF Truthy(self.sample_rate)
            THEN <<"-srate", " ">> \o Format(self.sample_rate) ELSE <<>>
        video_filters ==
            LET bits ==
                  IF Truthy(self.width) /\ Truthy(self.height)
                  THEN << <<"scale=">> \o Format(self.width) \o <<":">>
                             \o Format(self.height) >>
                  ELSE IF Truthy(self.width) /\ ~Truthy(self.height)
                  THEN << <<"scale=">> \o Format(self.width) \o <<":", "-">> >>
                  ELSE IF ~Truthy(self.width) /\ Truthy(self.height)
                  THEN << <<"scale=", "-", ":">> \o Format(self.height) >>
                  ELSE <<>>
            IN IF Len(bits) > 0 THEN <<"-vf", " ">> \o Join(<<",">>, bits) ELSE <<>>
    IN Join(<<" ">>, << <<"mencoder">>, input_filename, output_filename, container,
                       vcodec, vcodec_opts, acodec, acodec_opts, sample_rate,
                       video_filters >>)

(***************************************************************************)
(* SpecCommand: each command line is built for arbitrary file paths; the   *)
(* encode command for a converter of either mencoder class constructed     *)
(* with an arbitrary width and height.                                     *)
(***************************************************************************)
PathAlphabet == {"a", " ", Quote}
Paths == Strings(PathAlphabet, MaxPathLen) \ {<<>>}
Widths == {PyNone, PyInt(640), PyInt(320)}
Heights == {PyNone, PyInt(240)}
Positions == {1, 10}

InitCommand ==
    /\ NothingRuns
    /\ env = [installed |-> {}, pyver |-> "2.6", family |-> "none"]
    /\ call \in
         {Called("get_video_metadata", [filename |-> f]) : f \in Paths}
         \cup {Called("make_snapshot",
                      [video_filename |-> v, snapshot_filename |-> t, position |-> q]) :
                   v \in Paths, t \in Paths, q \in Positions}
         \cup {Called("inject_metadata", [input_filename |-> i, output_filename |-> o]) :
                   i \in Paths, o \in Paths}
         \cup {Called("get_encode_command",
                      [class |-> c, kwargs |-> [width |-> w, height |-> h],
                       input_file |-> i, output_file |-> o]) :
                   c \in {"H263Converter", "H264Converter"},
                   w \in Widths, h \in Heights, i \in Paths, o \in Paths}

ProbeCommandReturn ==
    Return("get_video_metadata", ProbeCommand(call.args.filename))

SnapshotCommandReturn ==
    Return("make_snapshot",
           SnapshotCommand(call.args.video_filename, call.args.snapshot_filename,
                           call.args.position))

InjectCommandReturn ==
    Return("inject_metadata",
           InjectCommand(call.args.input_filename, call.args.output_filename))

EncodeCommandReturn ==
    Return("get_encode_command",
           get_encode_command(
               BaseConverterInit(ConverterClass(call.args.class), call.args.kwargs),
               call.args.input_file, call.args.output_file))

NextCommand ==
    \/ ProbeCommandReturn
    \/ SnapshotCommandReturn
    \/ InjectCommandReturn
    \/ EncodeCommandReturn

SpecCommand == InitCommand /\ [][NextCommand]_vars

(***************************************************************************)
(* Claims about popen, checked under SpecPopen                             *)
(***************************************************************************)
Last(s) == s[Len(s)]

\* The number of zero-length reads at the end of s.
RECURSIVE TrailingBlanks(_)
TrailingBlanks(s) ==
    IF Len(s) = 0 \/ Len(Last(s)) >= 1 THEN 0
    ELSE 1 + TrailingBlanks(SubSeq(s, 1, Len(s) - 1))

\* C5: popen returns after exactly miss_count consecutive zero-length reads:
\* when it has returned, the run of blank reads that ends the stream is
\* miss_count long.
C5_ReturnsAfterMissCountBlanks ==
    ppc = "returned" => TrailingBlanks(reads) = miss_count

\* C6: the handler invocations are exactly the non-empty lines read, once
\* each and in reading order, and never a zero-length read; without a
\* handler there is no invocation.
C6_CallsAreNonBlankReads ==
    calls = IF handler = "none" THEN <<>> ELSE NonBlankReads

C6_Witness ==
    /\ ppc = "returned"
    /\ handler = "generic"
    /\ Len(calls) = 2
    /\ calls[1] # calls[2]
    /\ Len(reads) > Len(calls) + TrailingBlanks(reads)

\* C7: an error raised by the handler leaves popen at once: the step that
\* raises ends popen in the raised state, and from then on no line is read
\* and the handler is not invoked.
C7_HandlerErrorPropagates ==
    [][ /\ exc' # "none" => ppc' = "raised"
        /\ exc # "none" => reads' = reads /\ calls' = calls ]_vars

C7_Witness ==
    /\ ppc = "raised"
    /\ exc = "HandlerError"
    /\ Len(calls) >= 2

(***************************************************************************)
(* Claims about the percent-marker tracker, checked under SpecMencoder     *)
(***************************************************************************)
\* C8: no progress event of the percent-marker tracker has old_percent equal
\* to new_percent (an event is emitted only for a percent that differs from
\* the last-seen one, which starts at 0).
C8_NoEventWithEqualPercents ==
    \A i \in DOMAIN events : events[i][1] # events[i][2]

\* C9: a line holding the command-line-error signature raises
\* WrongCommandLine on that very line and ends the run: that line emits no
\* progress event, and after it nothing is read, handled or emitted.
C9_ErrSigAbortsRun ==
    [][ /\ (calls' # calls /\ HasErrSig(Last(calls')))
            => (exc' = "WrongCommandLine" /\ ppc' = "raised" /\ events' = events)
        /\ exc = "WrongCommandLine"
            => (events' = events /\ reads' = reads /\ calls' = calls) ]_vars

C9_Witness ==
    /\ exc = "WrongCommandLine"
    /\ ppc = "raised"
    /\ Len(events) >= 1
    /\ HasErrSig(Last(calls))
    /\ PosMatch(Last(calls)) # <<>>

(***************************************************************************)
(* Claims about the duration/timestamp tracker, checked under SpecFFMpeg   *)
(***************************************************************************)
\* time=HH:MM:SS.ff and Duration: HH:MM:SS.ff as ffmpeg prints them.
ClockOfDigits(line) ==
    /\ Len(line) >= 12
    /\ \A i \in {2, 3, 5, 6, 8, 9, 11, 12} : line[i] \in Digits
    /\ line[4] = ":" /\ line[7] = ":" /\ line[10] = "."

TimestampLine(line) ==
    ReProgressMatch(line) \/ (ClockOfDigits(line) /\ line[1] = "time=")

DurationLine(line) ==
    ReDurationMatch(line) \/ (ClockOfDigits(line) /\ line[1] = "Duration: ")

ClockSeconds(line) ==
    3600 * DigitsToInt(SubSeq(line, 2, 3)) + 60 * DigitsToInt(SubSeq(line, 5, 6))
        + DigitsToInt(SubSeq(line, 8, 9))

\* The tracker the claim describes, run over the lines s: the remembered
\* total, the last-seen percent and the events emitted.
RECURSIVE Tracked(_)
Tracked(s) ==
    IF Len(s) = 0 THEN [total |-> 0, last |-> 0, emitted |-> <<>>]
    ELSE LET t == Tracked(SubSeq(s, 1, Len(s) - 1))
             line == s[Len(s)]
         IN IF ClockOfDigits(line) /\ line[1] = "Duration: "
            THEN [t EXCEPT !.total = ClockSeconds(line)]
            ELSE IF ClockOfDigits(line) /\ line[1] = "time=" /\ t.total > 0
            THEN LET new == (ClockSeconds(line) * 100) \div t.total
                 IN IF new # t.last
                    THEN [t EXCEPT !.last = new,
                                   !.emitted = Append(@, <<t.last, new>>)]
                    ELSE t
            ELSE t

\* C11: once a duration line reporting T seconds was handled, every later
\* timestamp line at e seconds emits (last, floor(e*100/T)) exactly when that
\* value differs from the last-seen one; after "Duration: 00:01:40.00" the
\* line "time=00:00:50.00" emits (0, 50).
C11_EventsFollowDuration ==
    (\A i \in DOMAIN calls : ClockOfDigits(calls[i]) \/ calls[i] = <<"x">>)
        => events = Tracked(calls).emitted

(***************************************************************************)
(* Claims about BaseConverter.convert, checked under Spec                  *)
(***************************************************************************)
Launched(stages) == \E i \in DOMAIN procs : procs[i].stage \in stages

StageProcs(stage) == {i \in DOMAIN procs : procs[i].stage = stage}

\* C1: a later stage runs only if every earlier stage succeeded: an encode,
\* snapshot or injection subprocess exists only after a probe that populated
\* two fields and raised nothing, a snapshot or injection subprocess only
\* after an encode that returned true with both encoder runs drained; after
\* WrongVideoFormat nothing but the probe has run, after WrongCommandLine no
\* snapshot and no injection.
C1_LaterStageOnlyAfterSuccess ==
    /\ Launched({"encode", "snapshot", "inject"})
         => /\ Cardinality(DOMAIN result.movie_info) >= 2
            /\ exc # "WrongVideoFormat"
            /\ \A i \in StageProcs("probe") : procs[i].state = "drained"
    /\ Launched({"snapshot", "inject"})
         => /\ result.converted
            /\ exc # "WrongCommandLine"
            /\ \A i \in StageProcs("encode") : procs[i].state = "drained"
    /\ exc = "WrongVideoFormat" => ~Launched({"encode", "snapshot", "inject"})
    /\ exc = "WrongCommandLine" => ~Launched({"snapshot", "inject"})
    /\ ~result.converted => ~Launched({"snapshot", "inject"})

C1_Witness ==
    /\ cpc = "raised"
    /\ exc = "WrongCommandLine"
    /\ Cardinality(DOMAIN result.movie_info) >= 2
    /\ Launched({"encode"})

StageRank(stage) ==
    CASE stage = "probe" -> 1 [] stage = "encode" -> 2
      [] stage = "snapshot" -> 3 [] stage = "inject" -> 4

\* C2: the subprocesses of a conversion run one at a time and in the order
\* probe, encode, snapshots, injection: every subprocess but the one
\* launched last is over (drained, or exited for a utility check), and the
\* stages of the log never go back; there is one probe and one injection.
C2_SubprocessesSequential ==
    /\ \A i \in 1..(Len(procs) - 1) : procs[i].state # "running"
    /\ \A i, j \in DOMAIN procs :
         (i < j /\ procs[i].stage # "help" /\ procs[j].stage # "help")
            => StageRank(procs[i].stage) <= StageRank(procs[j].stage)
    /\ Cardinality(StageProcs("probe")) <= 1
    /\ Cardinality(StageProcs("inject")) <= 1

C2_Witness ==
    /\ cpc = "done"
    /\ Cardinality(StageProcs("probe")) = 1
    /\ Cardinality(StageProcs("encode")) >= 1
    /\ Cardinality(StageProcs("snapshot")) >= 2
    /\ Cardinality(StageProcs("inject")) = 1
    /\ \A i \in DOMAIN procs : procs[i].state # "running"

\* C3: WrongCommandLine raised in the encode stage does not escape convert:
\* convert is never left by that exception.
C3_WrongCommandLineAbsorbed ==
    ~(cpc = "raised" /\ exc = "WrongCommandLine")

IsUtilityNotFound(e) == \E u \in Utilities : e = UtilityNotFound(u)

C12_SnapshotFailureDoesNotEscape ==
    (cpc = "raised" /\ Launched({"snapshot"}) /\ ~Launched({"inject"}))
        => exc # "OSError"

\* C14: the replace step is atomic-or-checked: a step of the injection
\* stage that starts with a non-empty converted file leaves a non-empty
\* converted file, also when the injector wrote no side file.
C14_OutputSurvivesInjection ==
    [][(cpc = "inject" /\ fs.out = "data") => fs'.out = "data"]_vars

\* C16: get_video_metadata signals WrongVideoFormat exactly when fewer than
\* two fields were populated: a probe that ends in an exception ends in
\* WrongVideoFormat with fewer than two fields in the record.
C16_WrongVideoFormatIffFewFields ==
    (cpc = "raised" /\ handler = "probe" /\ exc # "AttributeError")
        => (exc = "WrongVideoFormat" /\ ProbeFailed(hstate.metadata))

\* C20: in one call of convert the encoder subprocess is launched at most
\* once.
C20_EncoderLaunchedOnce == Cardinality(StageProcs("encode")) <= 1

\* C13: the snapshot set of a returned result holds an offset only if the
\* attempt at that offset succeeded in the conversion that produced the
\* result, however many conversions ran before.
C13_SnapshotsOfThisConversion ==
    cpc = "done" => DOMAIN snapshots \subseteq snap.made

\* The plan C15 describes for duration d and step > 0: the offsets
\* 1, 1+step, 1+2*step, ... below d-1, then d, then floor(d/2).
PlannedOffsets(d, step) ==
    LET below == {k \in 0..d : 1 + k * step < d - 1}
    IN [i \in 1..Cardinality(below) |-> 1 + (i - 1) * step] \o <<d, d \div 2>>

\* C15: for every duration D >= 1 and count N >= 1 snapshot planning
\* produces a plan, the one of step floor(D/N): the ascending offsets below
\* D-1, then D, then floor(D/2).
C15_PlanForEveryDurationAndCount ==
    (call.fn = "BaseConverter.make_snapshot" /\ call.done) =>
        /\ call.value.exc = "none"
        /\ LET step == call.args.duration \div call.args.num
           IN step > 0 =>
                call.value.seconds = PlannedOffsets(call.args.duration, step)

\* The token splitting of a POSIX shell, one character at a time: a space
\* outside quotes ends a token; between single quotes every character is
\* literal; outside quotes a backslash makes the next character literal;
\* between double quotes a backslash does so before a double quote or a
\* backslash. toks are the tokens ended so far, cur is the token being read
\* if one was started.
ShellStart == [mode |-> "plain", cur |-> <<>>, started |-> FALSE, toks |-> <<>>]

ShellStep(st, c) ==
    LET add(x, m) == [st EXCEPT !.mode = m, !.cur = st.cur \o x, !.started = TRUE]
    IN CASE st.mode = "single" ->
              IF c = Quote THEN add(<<>>, "plain") ELSE add(<<c>>, "single")
         [] st.mode = "double" ->
              IF c = DQuote THEN add(<<>>, "plain")
              ELSE IF c = Backslash THEN add(<<>>, "double backslash")
              ELSE add(<<c>>, "double")
         [] st.mode = "double backslash" ->
              IF c \in {DQuote, Backslash} THEN add(<<c>>, "double")
              ELSE add(<<Backslash, c>>, "double")
         [] st.mode = "backslash" -> add(<<c>>, "plain")
         [] st.mode = "plain" ->
              IF c = " "
              THEN [st EXCEPT !.cur = <<>>, !.started = FALSE,
                              !.toks = IF st.started THEN Append(@, st.cur) ELSE @]
              ELSE IF c = Quote THEN add(<<>>, "single")
              ELSE IF c = DQuote THEN add(<<>>, "double")
              ELSE IF c = Backslash THEN add(<<>>, "backslash")
              ELSE add(<<c>>, "plain")

\* The splitter in state st after it read s[a..b], computed by halves.
RECURSIVE ShellScan(_, _, _, _)
ShellScan(s, a, b, st) ==
    IF a > b THEN st
    ELSE IF a = b THEN ShellStep(st, s[a])
    ELSE LET mid == (a + b) \div 2
         IN CHOOSE end \in {ShellScan(s, mid + 1, b, half) :
                              half \in {ShellScan(s, a, mid, st)}} : TRUE

\* The tokens of the command line s. A quote left open makes the command
\* line invalid, which the last token records.
ShellSplit(s) ==
    LET end == ShellScan(s, 1, Len(s), ShellStart)
    IN IF end.mode \in {"single", "double", "double backslash"}
       THEN Append(end.toks, <<"unterminated quote">>)
       ELSE IF end.mode = "backslash" THEN Append(end.toks, Append(end.cur, Backslash))
       ELSE IF end.started THEN Append(end.toks, end.cur)
       ELSE end.toks

\* C19: for every string s over an alphabet with the single quote, the
\* space and the backslash, a POSIX shell splits escape_shell_arg(s) into
\* exactly one token, and that token is s.
C19_EscapeRoundTrips ==
    (call.fn = "escape_shell_arg" /\ call.done)
        => ShellSplit(call.value) = <<call.args>>

C19_Witness ==
    /\ call.fn = "escape_shell_arg"
    /\ call.done
    /\ call.args = <<Quote, Backslash, " ">>
    /\ call.value = <<Quote, Quote, Backslash, Quote, Quote, Backslash, " ", Quote>>
    /\ ShellSplit(call.value) = <<call.args>>

\* The word that follows "-vf " on the command line s, up to the next
\* space; <<>> if there is no -vf.
VfArgument(s) ==
    LET at == {i \in DOMAIN s : s[i] = "-vf"}
    IN IF at = {} THEN <<>>
       ELSE LET from == (CHOOSE i \in at : TRUE) + 2
                spaces == {j \in from..Len(s) : s[j] = " "}
                to == IF spaces = {} THEN Len(s)
                      ELSE (CHOOSE j \in spaces : \A k \in spaces : j <= k) - 1
            IN SubSeq(s, from, to)

IsSet(v) == v.type # "None"

\* C17: the scaling segment of the encode command follows the configured
\* width and height: both set gives scale=W:H, only the width scale=W:auto,
\* only the height scale=auto:H, neither no -vf at all (width=640 with
\* height=None gives scale=640:auto).
C17_ScalingFollowsConfiguration ==
    (call.fn = "get_encode_command" /\ call.done) =>
        LET w == call.args.kwargs.width
            h == call.args.kwargs.height
        IN VfArgument(call.value) =
             IF IsSet(w) /\ IsSet(h)
             THEN <<"scale=">> \o IntStr(w.val) \o <<":">> \o IntStr(h.val)
             ELSE IF IsSet(w) THEN <<"scale=">> \o IntStr(w.val) \o <<":", "auto">>
             ELSE IF IsSet(h) THEN <<"scale=", "auto", ":">> \o IntStr(h.val)
             ELSE <<>>

\* The file paths the caller supplied to the command being built.
SuppliedPaths ==
    CASE call.fn = "get_video_metadata" -> {call.args.filename}
      [] call.fn = "make_snapshot" ->
            {call.args.video_filename, call.args.snapshot_filename}
      [] call.fn = "inject_metadata" ->
            {call.args.input_filename, call.args.output_filename}
      [] call.fn = "get_encode_command" ->
            {call.args.input_file, call.args.output_file}
      [] OTHER -> {}

\* C18: in every command line handed to popen each file path the caller
\* supplied is escaped: the shell reads each of them as one argument, equal
\* to the path.
C18_EveryPathIsOneArgument ==
    call.done =>
        \A path \in SuppliedPaths :
            \E i \in DOMAIN ShellSplit(call.value) : ShellSplit(call.value)[i] = path

(***************************************************************************)
(* Claims about the termination of popen, checked under SpecPopenFair      *)
(***************************************************************************)
\* A step in which readline() returned a zero-length line.
BlankRead == reads' = Append(reads, Blank)

\* miss_count consecutive reads of this call were all zero-length.
BlankWindow ==
    \E i \in 1..(Len(reads) - miss_count + 1) :
        \A j \in i..(i + miss_count - 1) : IsBlank(reads[j])

\* C21: if from some point on every read returns a zero-length line and the
\* handler does not raise, popen eventually returns; and popen returns only
\* after a window of miss_count reads without a non-empty line.
C21_PopenTerminates ==
    /\ (<>[][BlankRead]_vars) => <>(ppc = "returned" \/ ppc = "raised")
    /\ [](ppc = "returned" => BlankWindow)

C21_Witness ==
    /\ ppc = "returned"
    /\ handler = "generic"
    /\ miss_count = DefaultMissCount
    /\ Len(NonBlankReads) = MaxLines
    /\ TrailingBlanks(reads) > miss_count

====
